---- MODULE Spec2Model ----
(***************************************************************************)
(* Model of recipe_app/static/js/main.js: a script that registers one      *)
(* DOMContentLoaded listener; the listener logs an initialization message, *)
(* queries the document for the first 'main' element and logs either the   *)
(* length of its innerHTML or an error.                                    *)
(*                                                                         *)
(* The host (browser) is modelled as far as the script depends on it: the  *)
(* document tree, the readiness lifecycle and its events, event dispatch   *)
(* to registered listeners, the console, and other code changing the DOM.  *)
(***************************************************************************)
EXTENDS Integers, Sequences, FiniteSets, TLC

\* Largest number of children of the document body.
MaxElems == 2

VARIABLES
    doc,          \* children of the document body, in document order
    readyState,   \* document.readyState
    dclFired,     \* DOMContentLoaded has been dispatched
    listeners,    \* event types this script's handler is registered for
    dispatching,  \* event whose listener is about to be invoked, or "none"
    console,      \* sequence of diagnostics written so far
    runs,         \* number of times the handler body was entered
    returned      \* number of times the handler body returned normally

vars == <<doc, readyState, dclFired, listeners, dispatching, console, runs, returned>>

----------------------------------------------------------------------------
\* DOM nodes. All nodes are records of one shape.

Null == [kind |-> "null", tag |-> "", data |-> <<>>, kids |-> <<>>]

Text(s) == [kind |-> "text", tag |-> "", data |-> s, kids |-> <<>>]

Elem(t, ks) == [kind |-> "elem", tag |-> t, data |-> <<>>, kids |-> ks]

\* Child lists an element of the page may have.
Contents ==
    { <<>>,
      << Text(<<"H", "e", "l", "l", "o">>) >>,
      << Elem("p", << Text(<<"S", "o", "u", "p">>) >>) >>,
      << Text(<<"R", "&", "D">>) >>,
      << Elem("main", << Text(<<"x">>) >>) >> }

Tags == {"main", "div"}

Elements == { Elem(t, c) : t \in Tags, c \in Contents }

----------------------------------------------------------------------------
\* Element.innerHTML: the HTML serialization of the element's children.

TagChars(t) ==
    CASE t = "main" -> <<"m", "a", "i", "n">>
      [] t = "div"  -> <<"d", "i", "v">>
      [] t = "p"    -> <<"p">>

EscapeChar(c) ==
    CASE c = "&" -> <<"&", "a", "m", "p", ";">>
      [] c = "<" -> <<"&", "l", "t", ";">>
      [] c = ">" -> <<"&", "g", "t", ";">>
      [] OTHER   -> <<c>>

RECURSIVE EscapeText(_)
EscapeText(s) ==
    IF s = <<>> THEN <<>> ELSE EscapeChar(Head(s)) \o EscapeText(Tail(s))

RECURSIVE SerializeNodes(_)
SerializeNode(n) ==
    IF n.kind = "text"
    THEN EscapeText(n.data)
    ELSE <<"<">> \o TagChars(n.tag) \o <<">">>
         \o SerializeNodes(n.kids)
         \o <<"<", "/">> \o TagChars(n.tag) \o <<">">>

SerializeNodes(ns) ==
    IF ns = <<>> THEN <<>> ELSE SerializeNode(Head(ns)) \o SerializeNodes(Tail(ns))

\* Plausible slip: outerHTML read instead of innerHTML.
InnerHTMLOuter(node) == SerializeNode(node)

InnerHTML(node) == SerializeNodes(node.kids)

----------------------------------------------------------------------------
\* document.querySelector(sel) for a type selector: the first element in
\* tree order (depth first, pre-order) with that tag, or null.

RECURSIVE QueryLast(_, _)
QueryLast(nodes, sel) ==
    IF nodes = <<>> THEN Null
    ELSE LET n    == nodes[Len(nodes)]
             rest == SubSeq(nodes, 1, Len(nodes) - 1)
             deep == QueryLast(n.kids, sel)
         IN  IF deep # Null THEN deep
             ELSE IF n.kind = "elem" /\ n.tag = sel THEN n
             ELSE QueryLast(rest, sel)

\* Plausible slip: the last match is taken instead of the first.
QuerySelectorLast(d, sel) == QueryLast(d, sel)

RECURSIVE QueryFirst(_, _)
QueryFirst(nodes, sel) ==
    IF nodes = <<>> THEN Null
    ELSE LET n == Head(nodes)
         IN  IF n.kind = "elem" /\ n.tag = sel THEN n
             ELSE LET deep == QueryFirst(n.kids, sel)
                  IN  IF deep # Null THEN deep
                      ELSE QueryFirst(Tail(nodes), sel)

QuerySelector(d, sel) == QueryFirst(d, sel)

----------------------------------------------------------------------------
\* Diagnostics written to the console.

InitMsg ==
    [level |-> "log", text |-> "Recipe app initialized successfully",
     nums |-> <<>>, tail |-> ""]

FoundMsg(n) ==
    [level |-> "log", text |-> "Main content found:",
     nums |-> <<n>>, tail |-> "characters"]

\* Plausible slip: console.log used for the missing-element report.
ErrMsgAsLog ==
    [level |-> "log", text |-> "Main content not found",
     nums |-> <<>>, tail |-> ""]

ErrMsg ==
    [level |-> "error", text |-> "Main content not found",
     nums |-> <<>>, tail |-> ""]

----------------------------------------------------------------------------
\* The handler.

\* Plausible slip: the null check is missing.
TruthyAlways(v) == TRUE

\* Plausible slip: the test is on the content length as well.
TruthyNonEmpty(v) == v # Null /\ Len(InnerHTML(v)) > 0

\* JavaScript truthiness of a value that is a node or null.
Truthy(v) == v # Null

\* Plausible slip: the outcome is logged before the initialization message.
HandlerBodyOutcomeFirst(d) ==
    LET mainContent == QuerySelector(d, "main")
    IN  IF Truthy(mainContent)
        THEN IF mainContent = Null
             THEN [doc |-> d, out |-> <<>>, threw |-> TRUE]
             ELSE [doc |-> d,
                   out |-> <<FoundMsg(Len(InnerHTML(mainContent))), InitMsg>>,
                   threw |-> FALSE]
        ELSE [doc |-> d, out |-> <<ErrMsg, InitMsg>>, threw |-> FALSE]

\* Plausible slip: the handler empties the page while probing it.
HandlerBodyClearing(d) ==
    LET mainContent == QuerySelector(d, "main")
    IN  IF Truthy(mainContent)
        THEN IF mainContent = Null
             THEN [doc |-> d, out |-> <<InitMsg>>, threw |-> TRUE]
             ELSE [doc |-> <<>>,
                   out |-> <<InitMsg, FoundMsg(Len(InnerHTML(mainContent)))>>,
                   threw |-> FALSE]
        ELSE [doc |-> <<>>, out |-> <<InitMsg, ErrMsg>>, threw |-> FALSE]

\* The body of the listener run on document d: the document it leaves, the
\* diagnostics it writes, and whether it ended by throwing.  Reading a
\* property of null throws a TypeError, which ends the body at that point.
HandlerBody(d) ==
    LET mainContent == QuerySelector(d, "main")
    IN  IF Truthy(mainContent)
        THEN IF mainContent = Null
             THEN [doc |-> d, out |-> <<InitMsg>>, threw |-> TRUE]
             ELSE [doc |-> d,
                   out |-> <<InitMsg, FoundMsg(Len(InnerHTML(mainContent)))>>,
                   threw |-> FALSE]
        ELSE [doc |-> d, out |-> <<InitMsg, ErrMsg>>, threw |-> FALSE]

\* Plausible slip: the listener is attached to readystatechange.
EventTypeReadyStateChange == "readystatechange"

\* The event the script listens to.
EventType == "DOMContentLoaded"

\* The host starts invoking the listeners of event e.
Dispatch(e) == dispatching' = IF e \in listeners THEN e ELSE "none"

----------------------------------------------------------------------------
Init ==
    /\ doc = <<>>
    /\ readyState = "loading"
    /\ dclFired = FALSE
    /\ listeners = {}
    /\ dispatching = "none"
    /\ console = <<>>
    /\ runs = 0
    /\ returned = 0

\* The parser appends an element to the body.
ParseElement ==
    /\ readyState = "loading"
    /\ dispatching = "none"
    /\ Len(doc) < MaxElems
    /\ \E e \in Elements : doc' = Append(doc, e)
    /\ UNCHANGED <<readyState, dclFired, listeners, dispatching, console, runs, returned>>

\* The script is executed: its only statement registers the listener.  A
\* classic script runs while the document is loading; an async or injected
\* script may run after DOMContentLoaded has been dispatched.
RunScript ==
    /\ listeners = {}
    /\ dispatching = "none"
    /\ readyState # "complete"
    /\ listeners' = {EventType}
    /\ UNCHANGED <<doc, readyState, dclFired, dispatching, console, runs, returned>>

\* Parsing ends: readyState becomes "interactive" and readystatechange fires.
BecomeInteractive ==
    /\ readyState = "loading"
    /\ dispatching = "none"
    /\ readyState' = "interactive"
    /\ Dispatch("readystatechange")
    /\ UNCHANGED <<doc, dclFired, listeners, console, runs, returned>>

\* The host fires DOMContentLoaded, once.
FireDOMContentLoaded ==
    /\ readyState = "interactive"
    /\ ~dclFired
    /\ dispatching = "none"
    /\ dclFired' = TRUE
    /\ Dispatch("DOMContentLoaded")
    /\ UNCHANGED <<doc, readyState, listeners, console, runs, returned>>

\* Plausible slip: a missing element leaves the check pending, to be retried.
HandlerRetrying ==
    /\ dispatching # "none"
    /\ LET r == HandlerBody(doc)
       IN  /\ doc' = r.doc
           /\ console' = console \o r.out
           /\ runs' = runs + 1
           /\ returned' = IF r.threw THEN returned ELSE returned + 1
           /\ dispatching' = IF QuerySelector(doc, "main") = Null
                             THEN dispatching ELSE "none"
    /\ UNCHANGED <<readyState, dclFired, listeners>>

\* The listener is invoked and runs to its end before anything else happens.
Handler ==
    /\ dispatching # "none"
    /\ LET r == HandlerBody(doc)
       IN  /\ doc' = r.doc
           /\ console' = console \o r.out
           /\ runs' = runs + 1
           /\ returned' = IF r.threw THEN returned ELSE returned + 1
    /\ dispatching' = "none"
    /\ UNCHANGED <<readyState, dclFired, listeners>>

\* Subresources are loaded: readyState becomes "complete".
BecomeComplete ==
    /\ readyState = "interactive"
    /\ dclFired
    /\ dispatching = "none"
    /\ readyState' = "complete"
    /\ Dispatch("readystatechange")
    /\ UNCHANGED <<doc, dclFired, listeners, console, runs, returned>>

\* Other code of the page inserts an element at the front of the body.
InsertElement ==
    /\ readyState # "loading"
    /\ dispatching = "none"
    /\ Len(doc) < MaxElems
    /\ \E e \in Elements : doc' = <<e>> \o doc
    /\ UNCHANGED <<readyState, dclFired, listeners, dispatching, console, runs, returned>>

\* Other code of the page removes an element of the body.
RemoveElement ==
    /\ readyState # "loading"
    /\ dispatching = "none"
    /\ \E i \in 1..Len(doc) :
          doc' = SubSeq(doc, 1, i - 1) \o SubSeq(doc, i + 1, Len(doc))
    /\ UNCHANGED <<readyState, dclFired, listeners, dispatching, console, runs, returned>>

\* Other code of the page replaces the content of an element of the body.
SetInnerHTML ==
    /\ readyState # "loading"
    /\ dispatching = "none"
    /\ \E i \in 1..Len(doc), c \in Contents :
          /\ c # doc[i].kids
          /\ doc' = [doc EXCEPT ![i].kids = c]
    /\ UNCHANGED <<readyState, dclFired, listeners, dispatching, console, runs, returned>>

Next ==
    \/ ParseElement
    \/ RunScript
    \/ BecomeInteractive
    \/ FireDOMContentLoaded
    \/ Handler
    \/ BecomeComplete
    \/ InsertElement
    \/ RemoveElement
    \/ SetInnerHTML

Spec == Init /\ [][Next]_vars

----------------------------------------------------------------------------
\* What the properties are stated in: the elements of a tree in document
\* order, the 'main' elements among them, and the length of a serialization
\* counted character by character.

RECURSIVE DocOrder(_)
DocOrder(nodes) ==
    IF nodes = <<>> THEN <<>>
    ELSE (IF Head(nodes).kind = "elem" THEN <<Head(nodes)>> ELSE <<>>)
         \o DocOrder(Head(nodes).kids)
         \o DocOrder(Tail(nodes))

IsMain(n) == n.tag = "main"

MainsOf(d) == SelectSeq(DocOrder(d), IsMain)

CharLength(c) == IF c = "&" THEN 5 ELSE IF c \in {"<", ">"} THEN 4 ELSE 1

TagLength(t) == IF t = "main" THEN 4 ELSE IF t = "div" THEN 3 ELSE 1

RECURSIVE TextLength(_)
TextLength(s) == IF s = <<>> THEN 0 ELSE CharLength(Head(s)) + TextLength(Tail(s))

RECURSIVE MarkupLength(_)
MarkupLength(ns) ==
    IF ns = <<>> THEN 0
    ELSE (IF Head(ns).kind = "text"
          THEN TextLength(Head(ns).data)
          ELSE 2 * TagLength(Head(ns).tag) + 5 + MarkupLength(Head(ns).kids))
         + MarkupLength(Tail(ns))

\* The handler is about to run: every step taken from such a state is the
\* handler's.
HandlerDue == dispatching # "none"

\* The diagnostics a step writes.
Emitted == SubSeq(console', Len(console) + 1, Len(console'))

IsFound(m) == m.text = "Main content found:"

IsInfoFound(m) == IsFound(m) /\ m.level = "log"

IsError(m) == m.level = "error"

IsInit(m) == m.text = "Recipe app initialized successfully"

\* C1: a handler run on a document with a 'main' element writes exactly one
\* informational 'Main content found' diagnostic, and it carries the length
\* of the serialized inner markup of that element (0 for an empty element).
C1_FoundReportsLength ==
    [][(HandlerDue /\ MainsOf(doc) # <<>>) =>
          /\ SubSeq(console', 1, Len(console)) = console
          /\ LET found == SelectSeq(Emitted, IsFound)
             IN  /\ Len(found) = 1
                 /\ found[1].level = "log"
                 /\ found[1].nums = <<MarkupLength(MainsOf(doc)[1].kids)>>]_vars

\* An empty 'main' element was probed and reported with length 0.
C1_Witness ==
    /\ returned = 1
    /\ console = <<InitMsg, FoundMsg(0)>>

\* C2: a handler run on a document without a 'main' element writes exactly
\* one error-level diagnostic and no diagnostic about the content length.
C2_MissingReportsError ==
    [][(HandlerDue /\ MainsOf(doc) = <<>>) =>
          /\ SubSeq(console', 1, Len(console)) = console
          /\ Len(SelectSeq(Emitted, IsError)) = 1
          /\ Len(SelectSeq(Emitted, IsFound)) = 0]_vars

\* A document of elements none of which is 'main' was probed.
C2_Witness ==
    /\ returned = 1
    /\ Len(doc) = MaxElems
    /\ MainsOf(doc) = <<>>
    /\ Len(SelectSeq(console, IsError)) = 1
    /\ readyState = "interactive"

\* C3: once the script has run and the page has finished loading, the
\* initialization diagnostic has been written exactly once.
C3_InitExactlyOnce ==
    (listeners # {} /\ readyState = "complete") =>
        Len(SelectSeq(console, IsInit)) = 1

\* C4: the handler leaves the document as it found it, in both branches.
C4_DocumentUnchanged ==
    [][HandlerDue => doc' = doc]_vars

\* The handler has run on a page that has content, with and without 'main'.
C4_Witness ==
    /\ returned = 1
    /\ Len(doc) = MaxElems
    /\ MainsOf(doc) # <<>>
    /\ Len(SelectSeq(console, IsInfoFound)) = 1
    /\ readyState = "complete"

\* C5: the handler body is entered at most once, only while
\* DOMContentLoaded is being dispatched, and the count of runs never falls.
C5_CheckedOnce ==
    [][/\ runs' >= runs
       /\ (runs' # runs =>
              /\ runs = 0
              /\ runs' = 1
              /\ dispatching = "DOMContentLoaded"
              /\ dclFired)]_vars

\* The probe is Checked and the page went on to finish loading.
C5_Witness ==
    /\ runs = 1
    /\ dispatching = "none"
    /\ readyState = "complete"
    /\ listeners = {"DOMContentLoaded"}

\* C6: a handler run writes the initialization diagnostic first and the
\* outcome diagnostic second: [init, found L] with a 'main' element,
\* [init, error] without.
C6_InitBeforeOutcome ==
    [][HandlerDue =>
          /\ Len(Emitted) = 2
          /\ Emitted[1] = InitMsg
          /\ ~IsInit(Emitted[2])
          /\ Emitted[2] =
                IF MainsOf(doc) # <<>>
                THEN FoundMsg(MarkupLength(MainsOf(doc)[1].kids))
                ELSE [level |-> "error", text |-> "Main content not found",
                      nums |-> <<>>, tail |-> ""]]_vars

\* Scenario 1 of the specification: <main>Hello</main>.
C6_Witness ==
    /\ runs = 1
    /\ doc = << Elem("main", << Text(<<"H", "e", "l", "l", "o">>) >>) >>
    /\ console = <<InitMsg, FoundMsg(5)>>

\* C7: a handler run on a document without a 'main' element returns
\* normally: nothing is thrown and the dispatch is over.
C7_AbsenceIsNotAFault ==
    [][(HandlerDue /\ MainsOf(doc) = <<>>) =>
          /\ runs' = runs + 1
          /\ returned' = returned + 1
          /\ runs' = returned'
          /\ dispatching' = "none"]_vars

\* The empty document was probed and the handler returned.
C7_Witness ==
    /\ runs = 1
    /\ returned = 1
    /\ dispatching = "none"
    /\ Len(SelectSeq(console, IsError)) = 1
    /\ Len(SelectSeq(console, IsFound)) = 0
    /\ doc = <<>>

\* C8: with two or more 'main' elements, the handler writes exactly one
\* 'content found' diagnostic, with the length of the first in document
\* order.
C8_FirstMainOnly ==
    [][(HandlerDue /\ Len(MainsOf(doc)) >= 2) =>
          SelectSeq(Emitted, IsFound) =
             <<FoundMsg(MarkupLength(MainsOf(doc)[1].kids))>>]_vars

\* Two 'main' elements of different lengths, the first one reported.
C8_Witness ==
    /\ returned = 1
    /\ Len(MainsOf(doc)) >= 2
    /\ MarkupLength(MainsOf(doc)[1].kids) = 11
    /\ MarkupLength(MainsOf(doc)[Len(MainsOf(doc))].kids) = 5
    /\ console = <<InitMsg, FoundMsg(11)>>
    /\ readyState = "interactive"

\* C9: once the handler has run, no diagnostic is ever written again,
\* whatever happens to the document.
C9_NoRetry ==
    [][runs >= 1 => console' = console]_vars

\* The element was missing at the check and was added later: the console
\* still holds only the not-found report.
C9_Witness ==
    /\ runs = 1
    /\ MainsOf(doc) # <<>>
    /\ console = <<InitMsg, ErrMsg>>
    /\ readyState = "complete"

\* C10: a handler run writes exactly two diagnostics, and the second is an
\* error exactly when the document has no 'main' element, whatever the
\* length of the element's content.
C10_OutcomesExclusive ==
    [][HandlerDue =>
          /\ Len(Emitted) = 2
          /\ Len(SelectSeq(Emitted, IsInit)) = 1
          /\ Len(SelectSeq(Emitted, IsError)) + Len(SelectSeq(Emitted, IsInfoFound)) = 1
          /\ (Len(SelectSeq(Emitted, IsError)) = 1 <=> MainsOf(doc) = <<>>)]_vars

\* Both outcomes with the same length in play: an empty 'main' was found.
C10_Witness ==
    /\ returned = 1
    /\ MainsOf(doc) # <<>>
    /\ MainsOf(doc)[1].kids = <<>>
    /\ Len(SelectSeq(console, IsError)) = 0
    /\ Len(console) = 2
    /\ readyState = "interactive"
    /\ Len(doc) = 1

====
